---- MODULE Spec2Model ----
(***************************************************************************)
(* A model of package machine: the Machine of src/machine.go (a tree of   *)
(* throttled schedulers with Cancel/Close/Sub) and the earlier Machine of *)
(* src/unnamed/part_000 (one scheduler with an error list and a           *)
(* publish/subscribe registry).                                           *)
(*                                                                         *)
(* Every goroutine is a thread with a call stack of frames; one action is *)
(* one step of the frame on top: a lock acquisition, a channel operation, *)
(* a sync.Once entry, a read or write of shared state.  Steps that touch  *)
(* only the goroutine's own locals are folded into the shared step that   *)
(* follows them.                                                           *)
(***************************************************************************)
EXTENDS Integers, Sequences, FiniteSets, TLC

\* ---------------------------------------------------------------- bounds
MaxMachines == 3      \* machines that New/Sub may create (machine 1 is the root)
MaxUnits == 3         \* work items that Go may submit, at most
TreeUnits == 2        \* work items submitted in the runs of the machine tree
ShutIds == 0          \* caller-supplied ids in the runs of Cancel and Close (0: none)
OldUnits == 2         \* work items submitted in the runs of the earlier Machine
OldCeiling == 3       \* the earlier Machine's MaxRoutines is 1..OldCeiling
PubUnits == 3         \* work items in the runs of Publish and Subscribe
PubCeiling == 4       \* MaxRoutines in those runs: the queue routine and three units
NumCallers == 2       \* goroutines outside the machine calling its API
MaxOps == 2           \* API calls each outside goroutine makes
MaxCeiling == 2       \* WithMaxRoutines values are 1..MaxCeiling
MaxSuppliedId == 1    \* caller-supplied routine ids are 1..MaxSuppliedId (0: unset)

Machines == 1..MaxMachines
Units == 1..MaxUnits
Callers == {<<"ext", i>> : i \in 1..NumCallers}
UnitThreads == {<<"unit", u>> : u \in Units}
ServeThreads == {<<"serve", m>> : m \in Machines}
Lis == <<"lis", 0>>   \* the earlier Machine's worker queue goroutine
Threads == Callers \cup UnitThreads \cup ServeThreads \cup {Lis}

\* Contexts: one per machine, one per admitted routine, under context.Background.
Background == <<"bg", 0>>
NoCtx == <<"none", 0>>
MCtx(m) == <<"m", m>>
RCtx(u) == <<"r", u>>
LisCtx == <<"lis", 0>>   \* child1 of the earlier New
Ctxs == {MCtx(m) : m \in Machines} \cup {RCtx(u) : u \in Units} \cup {LisCtx}

VARIABLES
  made,        \* machines constructed so far
  mparent,     \* Machine.parent (0: none)
  children,    \* Machine.children, a slice
  max,         \* Machine.max
  routines,    \* Machine.routines: a map id -> routine, as a set of <<id, unit>>
  total,       \* Machine.total
  done,        \* Machine.done: number of values in the channel (capacity 1)
  doneSent,    \* values ever sent on Machine.done
  closeOnce,   \* Machine.closeOnce: "new", "running", "done"
  doneOnce,    \* Machine.doneOnce
  cacheClosed, \* times Machine.cache.Close() ran
  pubsubClosed,\* times Machine.pubsub.Close() ran
  rlock,       \* Machine.mu: number of read locks held
  ctxPar,      \* parent of each derived context (NoCtx: not derived yet)
  ctxDone,     \* contexts whose Done channel is closed
  unit,        \* work item state: free, pending, rejected, held, registered, running, done
  umach,       \* the machine a work item was submitted to
  uid,         \* the work item's opts.id (0: unset)
  stack,       \* each thread's call stack, top first
  ops,         \* API calls made by each outside goroutine
  quota,       \* [units, machines, ids]: what the run submits, creates and names at most
  seen,        \* per goroutine that called Current(): the sums the tree has shown since
  \* the earlier Machine (src/unnamed/part_000) is machine 1 with these fields more
  errs,        \* Machine.errs: the units (by number) whose error was appended
  workerChan,  \* Machine.workerChan, buffered with capacity max
  publishMu,   \* Machine.publishMu: the unit holding it (0: free)
  publishChan, \* Machine.publishChan: the channels made so far
  subscriptions, \* Machine.subscriptions: <<channel, id>> -> the values sent on the lane
  uret,        \* what each unit's function returned: "", "nil", "err", "cancel"
  waitRes      \* what Wait returned to each outside goroutine (<<"none">>: not yet)

varsTree == <<made, mparent, children, max, routines, total, done, doneSent, closeOnce,
              doneOnce, cacheClosed, pubsubClosed, rlock, ctxPar, ctxDone,
              unit, umach, uid, stack, ops, quota, seen>>

old == <<errs, workerChan, publishMu, publishChan, subscriptions, uret, waitRes>>

vars == <<varsTree, old>>

\* Groups of variables, for UNCHANGED.
tree == <<made, mparent, children, max>>
onces == <<closeOnce, doneOnce>>
closed == <<cacheClosed, pubsubClosed, doneSent>>
ctxs == <<ctxPar, ctxDone>>
units == <<unit, umach, uid>>
newer == <<made, mparent, children, total, done, doneSent, doneOnce, cacheClosed, pubsubClosed, rlock, uid, seen>>

\* ---------------------------------------------------------------- frames
Frame(op, m, pc, u, acc, kids, i) ==
  [op |-> op, m |-> m, pc |-> pc, u |-> u, acc |-> acc, kids |-> kids, i |-> i]

Top(t) == Head(stack[t])
Rest(t) == Tail(stack[t])
Idle(t) == stack[t] = <<>>
At(t, op, pc) == stack[t] # <<>> /\ Top(t).op = op /\ Top(t).pc = pc
SetPc(f, pc) == [f EXCEPT !.pc = pc]

\* The call at the bottom of thread t's stack, the one t's goroutine made itself.
Called(t, op) == stack[t] # <<>> /\ stack[t][Len(stack[t])].op = op

\* ---------------------------------------------------------------- contexts
RECURSIVE IsAncestor(_, _)
IsAncestor(a, c) ==
  /\ c \in Ctxs
  /\ ctxPar[c] # NoCtx
  /\ (ctxPar[c] = a \/ IsAncestor(a, ctxPar[c]))

\* cancel(): the context and every context derived from it become done.
CancelCtx(c) == ctxDone \cup {c} \cup {d \in Ctxs : IsAncestor(c, d)}

\* m.ctx.Err() != nil
CtxErr(m) == MCtx(m) \in ctxDone

\* context.WithCancel(parent): the new context is done at once when parent is.
Derive(c, parent) ==
  /\ ctxPar' = [ctxPar EXCEPT ![c] = parent]
  /\ ctxDone' = IF parent \in ctxDone THEN ctxDone \cup {c} ELSE ctxDone \ {c}

\* A routine context derived from context.Background() instead of m.ctx.
RoutineCtxDetached(m) == Background

\* The context serve derives a routine's context from.
RoutineCtxParent(m) == MCtx(m)

\* The context Sub hands to New.
SubCtxParent(m) == MCtx(m)

\* ---------------------------------------------------------------- tables
TableLen(m) == Cardinality({e[1] : e \in routines[m]})
Insert(tbl, id, u) == {e \in tbl : e[1] # id} \cup {<<id, u>>}
Delete(tbl, id) == {e \in tbl : e[1] # id}

\* rand.Int(): an id no other work item carries.
GenId(u) == MaxSuppliedId + u
RoutineId(u) == IF uid[u] = 0 THEN GenId(u) ELSE uid[u]

\* The sum Current() is meant to return, read at one instant.
RECURSIVE TrueCurrent(_), SumKids(_)
SumKids(s) == IF s = <<>> THEN 0 ELSE TrueCurrent(Head(s)) + SumKids(Tail(s))
TrueCurrent(m) == TableLen(m) + SumKids(children[m])

\* While a goroutine's own call of Current() is under way, every step records the
\* sum the tree shows before it.
Watch ==
  seen' = [t \in Threads |->
             IF Called(t, "Current")
             THEN seen[t] \cup {TrueCurrent(stack[t][Len(stack[t])].m)}
             ELSE {}]

\* ---------------------------------------------------------------- Current
\* for x := m.Current(); x >= m.max; x = m.Current() {}
ServeFull(x, m) == x >= max[m]

\* for m.Current() > 0 { ... }
WaitAgain(x) == x > 0

\* Hand the value Current() returned to the frame that called it.
Deliver(base, val) ==
  IF base = <<>> THEN <<>> ELSE
  LET f == Head(base) IN
  CASE f.op = "Current" -> <<[f EXCEPT !.acc = @ + val]>> \o Tail(base)
    [] f.op = "Wait" -> <<SetPc(f, IF WaitAgain(val) THEN "loop" ELSE "ret")>> \o Tail(base)
    [] f.op = "serve" -> <<SetPc(f, IF ServeFull(val, f.m) THEN "spin" ELSE "admit")>> \o Tail(base)

\* p.mu.RLock(); current := len(p.routines); range p.children.  A machine without
\* children unlocks and returns in the same step.
CurrentEnter(t, m, base) ==
  IF children[m] = <<>>
  THEN /\ stack' = [stack EXCEPT ![t] = Deliver(base, TableLen(m))]
       /\ UNCHANGED rlock
  ELSE /\ stack' = [stack EXCEPT ![t] =
                      <<Frame("Current", m, "kids", 0, TableLen(m), children[m], 1)>> \o base]
       /\ rlock' = [rlock EXCEPT ![m] = @ + 1]

\* One iteration of the loop over p.children, or the deferred RUnlock and return.
CurrentStep(t) ==
  /\ At(t, "Current", "kids")
  /\ LET f == Top(t) IN
     IF f.i > Len(f.kids)
     THEN /\ stack' = [stack EXCEPT ![t] = Deliver(Rest(t), f.acc)]
          /\ rlock' = [rlock EXCEPT ![f.m] = @ - 1]
     ELSE CurrentEnter(t, f.kids[f.i], <<[f EXCEPT !.i = @ + 1]>> \o Rest(t))
  /\ Watch
  /\ UNCHANGED <<old, quota, tree, routines, total, done, onces, closed, ctxs, units, ops>>

\* An outside goroutine calls m.Current().
CallerCurrent(t, m) ==
  /\ Idle(t) /\ ops[t] < MaxOps /\ m \in made
  /\ CurrentEnter(t, m, <<>>)
  /\ ops' = [ops EXCEPT ![t] = @ + 1]
  /\ Watch
  /\ UNCHANGED <<old, quota, tree, routines, total, done, onces, closed, ctxs, units>>

\* ---------------------------------------------------------------- Go
NextUnit == CHOOSE u \in Units : unit[u] = "free" /\ \A v \in Units : v < u => unit[v] # "free"

\* Go: if m.ctx.Err() == nil, send the work item on the unbuffered workQueue.
GoBody(t, m, id) ==
  /\ m \in made
  /\ \E u \in Units : unit[u] = "free"
  /\ Cardinality({u \in Units : unit[u] # "free"}) < quota.units
  /\ id <= quota.ids
  /\ LET u == NextUnit IN
     /\ umach' = [umach EXCEPT ![u] = m]
     /\ uid' = [uid EXCEPT ![u] = id]
     /\ IF CtxErr(m)
        THEN /\ unit' = [unit EXCEPT ![u] = "rejected"]
             /\ UNCHANGED stack
        ELSE /\ unit' = [unit EXCEPT ![u] = "pending"]
             /\ stack' = [stack EXCEPT ![t] =
                            <<Frame("Go", m, "send", u, 0, <<>>, 0)>> \o stack[t]]

CallerGo(t, m, id) ==
  /\ Idle(t) /\ ops[t] < MaxOps
  /\ GoBody(t, m, id)
  /\ ops' = [ops EXCEPT ![t] = @ + 1]
  /\ Watch
  /\ UNCHANGED <<old, quota, tree, routines, total, done, onces, closed, rlock, ctxs>>

\* A running unit submits work from inside its function.
UnitGo(u, m, id) ==
  /\ unit[u] = "running" /\ Idle(<<"unit", u>>)
  /\ GoBody(<<"unit", u>>, m, id)
  /\ Watch
  /\ UNCHANGED <<old, quota, tree, routines, total, done, onces, closed, rlock, ctxs, ops>>

\* ---------------------------------------------------------------- serve
ServeOf(m) == <<"serve", m>>

\* case w := <-m.workQueue, meeting a Go blocked in its send.
ServeReceive(m, t) ==
  /\ At(ServeOf(m), "serve", "select")
  /\ t # ServeOf(m)
  /\ At(t, "Go", "send") /\ Top(t).m = m
  /\ stack' = [stack EXCEPT ![t] = Rest(t),
                            ![ServeOf(m)] = <<Frame("serve", m, "spin", Top(t).u, 0, <<>>, 0)>>]
  /\ unit' = [unit EXCEPT ![Top(t).u] = "held"]
  /\ Watch
  /\ UNCHANGED <<old, quota, tree, routines, total, done, onces, closed, rlock, ctxs, umach, uid, ops>>

\* case <-m.done: return
ServeDone(m) ==
  /\ At(ServeOf(m), "serve", "select")
  /\ done[m] > 0
  /\ done' = [done EXCEPT ![m] = @ - 1]
  /\ stack' = [stack EXCEPT ![ServeOf(m)] = <<Frame("serve", m, "exit", 0, 0, <<>>, 0)>>]
  /\ Watch
  /\ UNCHANGED <<old, quota, tree, routines, total, onces, closed, rlock, ctxs, units, ops>>

\* x = m.Current() of the capacity loop.
ServePoll(m) ==
  /\ At(ServeOf(m), "serve", "spin")
  /\ CurrentEnter(ServeOf(m), m, stack[ServeOf(m)])
  /\ Watch
  /\ UNCHANGED <<old, quota, tree, routines, total, done, onces, closed, ctxs, units, ops>>

\* The loop is left: derive the routine's context, m.mu.Lock(), m.routines[id] = routine.
ServeAdmit(m) ==
  /\ At(ServeOf(m), "serve", "admit")
  /\ rlock[m] = 0
  /\ LET u == Top(ServeOf(m)).u IN
     /\ Derive(RCtx(u), RoutineCtxParent(m))
     /\ routines' = [routines EXCEPT ![m] = Insert(@, RoutineId(u), u)]
     /\ unit' = [unit EXCEPT ![u] = "registered"]
  /\ stack' = [stack EXCEPT ![ServeOf(m)] = <<SetPc(Top(ServeOf(m)), "count")>>]
  /\ Watch
  /\ UNCHANGED <<old, quota, tree, total, done, onces, closed, rlock, umach, uid, ops>>

\* The launch without the atomic.AddInt64.
ServeLaunchUncounted(m) ==
  /\ At(ServeOf(m), "serve", "count")
  /\ unit' = [unit EXCEPT ![Top(ServeOf(m)).u] = "running"]
  /\ stack' = [stack EXCEPT ![ServeOf(m)] = <<Frame("serve", m, "select", 0, 0, <<>>, 0)>>]
  /\ Watch
  /\ UNCHANGED <<old, quota, tree, routines, total, done, onces, closed, rlock, ctxs, umach,
                 uid, ops>>

\* atomic.AddInt64(&m.total, 1); go func() { ... w.fn(routine) }()
ServeLaunch(m) ==
  /\ At(ServeOf(m), "serve", "count")
  /\ total' = [total EXCEPT ![m] = @ + 1]
  /\ unit' = [unit EXCEPT ![Top(ServeOf(m)).u] = "running"]
  /\ stack' = [stack EXCEPT ![ServeOf(m)] = <<Frame("serve", m, "select", 0, 0, <<>>, 0)>>]
  /\ Watch
  /\ UNCHANGED <<old, quota, tree, routines, done, onces, closed, rlock, ctxs, umach, uid, ops>>

\* routine.done(): cancel the routine's context and delete its id from the table.
RoutineDone(u) ==
  /\ ctxDone' = CancelCtx(RCtx(u))
  /\ routines' = [routines EXCEPT ![umach[u]] = Delete(@, RoutineId(u))]

\* The unit's function returns or panics: the deferred routine.done() runs, then recover().
UnitReturn(u) ==
  /\ unit[u] = "running" /\ Idle(<<"unit", u>>)
  /\ rlock[umach[u]] = 0
  /\ RoutineDone(u)
  /\ unit' = [unit EXCEPT ![u] = "done"]
  /\ Watch
  /\ UNCHANGED <<old, quota, tree, total, done, onces, closed, rlock, ctxPar, umach, uid, stack, ops>>

\* ---------------------------------------------------------------- Cancel, Close
\* p.closeOnce.Do(func() { p.cancel(); for _, child := range p.children { ... } })
CancelEnter(t, m, base) ==
  /\ closeOnce[m] # "running"
  /\ IF closeOnce[m] = "done"
     THEN /\ stack' = [stack EXCEPT ![t] = base]
          /\ UNCHANGED <<closeOnce, ctxDone>>
     ELSE /\ closeOnce' = [closeOnce EXCEPT ![m] = "running"]
          /\ ctxDone' = CancelCtx(MCtx(m))
          /\ stack' = [stack EXCEPT ![t] =
                         <<Frame("Cancel", m, "kids", 0, 0, children[m], 1)>> \o base]
  /\ UNCHANGED doneOnce

\* Close without its doneOnce: every call runs the teardown.
CloseEnterEveryTime(t, m, base) ==
  /\ doneOnce' = [doneOnce EXCEPT ![m] = "running"]
  /\ stack' = [stack EXCEPT ![t] = <<Frame("Close", m, "cancel", 0, 0, <<>>, 0)>> \o base]
  /\ UNCHANGED <<closeOnce, ctxDone>>

\* m.doneOnce.Do(func() { ... })
CloseEnter(t, m, base) ==
  /\ doneOnce[m] # "running"
  /\ IF doneOnce[m] = "done"
     THEN /\ stack' = [stack EXCEPT ![t] = base]
          /\ UNCHANGED doneOnce
     ELSE /\ doneOnce' = [doneOnce EXCEPT ![m] = "running"]
          /\ stack' = [stack EXCEPT ![t] =
                         <<Frame("Close", m, "cancel", 0, 0, <<>>, 0)>> \o base]
  /\ UNCHANGED <<closeOnce, ctxDone>>

CallerCancel(t, m) ==
  /\ Idle(t) /\ ops[t] < MaxOps /\ m \in made
  /\ CancelEnter(t, m, stack[t])
  /\ ops' = [ops EXCEPT ![t] = @ + 1]
  /\ Watch
  /\ UNCHANGED <<old, quota, tree, routines, total, done, closed, rlock, ctxPar, units>>

CallerClose(t, m) ==
  /\ Idle(t) /\ ops[t] < MaxOps /\ m \in made
  /\ CloseEnter(t, m, stack[t])
  /\ ops' = [ops EXCEPT ![t] = @ + 1]
  /\ Watch
  /\ UNCHANGED <<old, quota, tree, routines, total, done, closed, rlock, ctxPar, units>>

\* Cancel: one iteration of the loop over p.children (child.Close()), or the end of
\* the closeOnce function.
CancelKids(t) ==
  /\ At(t, "Cancel", "kids")
  /\ LET f == Top(t) IN
     IF f.i > Len(f.kids)
     THEN /\ closeOnce' = [closeOnce EXCEPT ![f.m] = "done"]
          /\ stack' = [stack EXCEPT ![t] = Rest(t)]
          /\ UNCHANGED <<doneOnce, ctxDone>>
     ELSE CloseEnter(t, f.kids[f.i], <<[f EXCEPT !.i = @ + 1]>> \o Rest(t))
  /\ Watch
  /\ UNCHANGED <<old, quota, tree, routines, total, done, closed, rlock, ctxPar, units, ops>>

\* Close: m.Cancel()
CloseCancel(t) ==
  /\ At(t, "Close", "cancel")
  /\ CancelEnter(t, Top(t).m, <<SetPc(Top(t), "send")>> \o Rest(t))
  /\ Watch
  /\ UNCHANGED <<old, quota, tree, routines, total, done, closed, rlock, ctxPar, units, ops>>

\* Close: m.done <- struct{}{} (the channel holds one value)
CloseSend(t) ==
  /\ At(t, "Close", "send")
  /\ done[Top(t).m] < 1
  /\ done' = [done EXCEPT ![Top(t).m] = @ + 1]
  /\ doneSent' = [doneSent EXCEPT ![Top(t).m] = @ + 1]
  /\ stack' = [stack EXCEPT ![t] = <<SetPc(Top(t), "teardown")>> \o Rest(t)]
  /\ Watch
  /\ UNCHANGED <<old, quota, tree, routines, total, onces, cacheClosed, pubsubClosed, rlock,
                 ctxs, units, ops>>

\* Close: m.cache.Close(); m.pubsub.Close(); then range m.children
CloseTeardown(t) ==
  /\ At(t, "Close", "teardown")
  /\ cacheClosed' = [cacheClosed EXCEPT ![Top(t).m] = @ + 1]
  /\ pubsubClosed' = [pubsubClosed EXCEPT ![Top(t).m] = @ + 1]
  /\ stack' = [stack EXCEPT ![t] =
                 <<[Top(t) EXCEPT !.pc = "kids", !.kids = children[Top(t).m], !.i = 1]>>
                 \o Rest(t)]
  /\ Watch
  /\ UNCHANGED <<old, quota, tree, routines, total, done, doneSent, onces, rlock, ctxs,
                 units, ops>>

\* Close: one iteration of the loop over m.children, or the end of the doneOnce function.
CloseKids(t) ==
  /\ At(t, "Close", "kids")
  /\ LET f == Top(t) IN
     IF f.i > Len(f.kids)
     THEN /\ doneOnce' = [doneOnce EXCEPT ![f.m] = "done"]
          /\ stack' = [stack EXCEPT ![t] = Rest(t)]
          /\ UNCHANGED <<closeOnce, ctxDone>>
     ELSE CloseEnter(t, f.kids[f.i], <<[f EXCEPT !.i = @ + 1]>> \o Rest(t))
  /\ Watch
  /\ UNCHANGED <<old, quota, tree, routines, total, done, closed, rlock, ctxPar, units, ops>>

\* ---------------------------------------------------------------- Sub, Wait
NextMachine == CHOOSE c \in Machines : c \notin made /\ \A d \in Machines : d < c => d \in made

\* Sub: New(m.ctx, opts...) starts the child's serve; the child is appended to m.children.
CallerSub(t, m, mx) ==
  /\ Idle(t) /\ ops[t] < MaxOps /\ m \in made
  /\ made # Machines /\ Cardinality(made) < quota.machines
  /\ LET c == NextMachine IN
     /\ made' = made \cup {c}
     /\ mparent' = [mparent EXCEPT ![c] = m]
     /\ max' = [max EXCEPT ![c] = mx]
     /\ children' = [children EXCEPT ![m] = Append(@, c)]
     /\ Derive(MCtx(c), SubCtxParent(m))
     /\ stack' = [stack EXCEPT ![ServeOf(c)] = <<Frame("serve", c, "select", 0, 0, <<>>, 0)>>]
  /\ ops' = [ops EXCEPT ![t] = @ + 1]
  /\ Watch
  /\ UNCHANGED <<old, quota, routines, total, done, onces, closed, rlock, units>>

\* Wait: the first m.Current() of the loop.
CallerWait(t, m) ==
  /\ Idle(t) /\ ops[t] < MaxOps /\ m \in made
  /\ CurrentEnter(t, m, <<Frame("Wait", m, "loop", 0, 0, <<>>, 0)>>)
  /\ ops' = [ops EXCEPT ![t] = @ + 1]
  /\ Watch
  /\ UNCHANGED <<old, quota, tree, routines, total, done, onces, closed, ctxs, units>>

\* Wait: Current() was positive; len(m.workQueue) is 0 for the unbuffered queue, so
\* the inner loop is skipped and Current() is read again.
WaitPoll(t) ==
  /\ At(t, "Wait", "loop")
  /\ CurrentEnter(t, Top(t).m, stack[t])
  /\ Watch
  /\ UNCHANGED <<old, quota, tree, routines, total, done, onces, closed, ctxs, units, ops>>

\* Wait: Current() was 0; Wait returns.
WaitReturn(t) ==
  /\ At(t, "Wait", "ret")
  /\ stack' = [stack EXCEPT ![t] = Rest(t)]
  /\ Watch
  /\ UNCHANGED <<old, quota, tree, routines, total, done, onces, closed, rlock, ctxs, units, ops>>

\* ---------------------------------------------------------------- specification
InitMachine ==
  /\ made = {1}
  /\ mparent = [m \in Machines |-> 0]
  /\ children = [m \in Machines |-> <<>>]
  /\ total = [m \in Machines |-> 0]
  /\ done = [m \in Machines |-> 0]
  /\ doneSent = [m \in Machines |-> 0]
  /\ closeOnce = [m \in Machines |-> "new"]
  /\ doneOnce = [m \in Machines |-> "new"]
  /\ cacheClosed = [m \in Machines |-> 0]
  /\ pubsubClosed = [m \in Machines |-> 0]
  /\ rlock = [m \in Machines |-> 0]
  /\ ctxDone = {}
  /\ unit = [u \in Units |-> "free"]
  /\ umach = [u \in Units |-> 0]
  /\ uid = [u \in Units |-> 0]
  /\ ops = [t \in Callers |-> 0]
  /\ errs = <<>>
  /\ workerChan = <<>>
  /\ publishMu = 0
  /\ publishChan = {}
  /\ subscriptions = <<>>
  /\ uret = [u \in Units |-> ""]
  /\ waitRes = [t \in Callers |-> <<"none">>]
  /\ seen = [t \in Threads |-> {}]

\* New of src/machine.go: an empty machine whose serve goroutine is running.
InitTree(nunits, nmachines, nids) ==
  /\ InitMachine
  /\ quota = [units |-> nunits, machines |-> nmachines, ids |-> nids]
  /\ max \in {[m \in Machines |-> IF m = 1 THEN n ELSE 0] : n \in 1..MaxCeiling}
  /\ routines = [m \in Machines |-> {}]
  /\ ctxPar = [c \in Ctxs |-> IF c = MCtx(1) THEN Background ELSE NoCtx]
  /\ stack = [t \in Threads |-> IF t = ServeOf(1)
                                THEN <<Frame("serve", 1, "select", 0, 0, <<>>, 0)>>
                                ELSE <<>>]

InitAdmit == InitTree(TreeUnits, MaxMachines, MaxSuppliedId)

InitShut == InitTree(TreeUnits, MaxMachines, ShutIds)

NextAdmit ==
  \/ \E t \in Callers, m \in Machines, id \in 0..MaxSuppliedId : CallerGo(t, m, id)
  \/ \E u \in Units, m \in Machines, id \in 0..MaxSuppliedId : UnitGo(u, m, id)
  \/ \E m \in Machines, t \in Threads : ServeReceive(m, t)
  \/ \E m \in Machines : ServePoll(m)
  \/ \E m \in Machines : ServeAdmit(m)
  \/ \E m \in Machines : ServeLaunch(m)
  \/ \E u \in Units : UnitReturn(u)
  \/ \E t \in Threads : CurrentStep(t)
  \/ \E t \in Callers, m \in Machines, mx \in 1..MaxCeiling : CallerSub(t, m, mx)
  \/ \E t \in Callers, m \in Machines : CallerWait(t, m)
  \/ \E t \in Threads : WaitPoll(t)
  \/ \E t \in Threads : WaitReturn(t)

SpecAdmit == InitAdmit /\ [][NextAdmit]_vars

NextShut ==
  \/ \E t \in Callers, m \in Machines, id \in 0..MaxSuppliedId : CallerGo(t, m, id)
  \/ \E m \in Machines, t \in Threads : ServeReceive(m, t)
  \/ \E m \in Machines : ServeDone(m)
  \/ \E m \in Machines : ServePoll(m)
  \/ \E m \in Machines : ServeAdmit(m)
  \/ \E m \in Machines : ServeLaunch(m)
  \/ \E u \in Units : UnitReturn(u)
  \/ \E t \in Threads : CurrentStep(t)
  \/ \E t \in Callers, m \in Machines : CallerCancel(t, m)
  \/ \E t \in Callers, m \in Machines : CallerClose(t, m)
  \/ \E t \in Threads : CancelKids(t)
  \/ \E t \in Threads : CloseCancel(t)
  \/ \E t \in Threads : CloseSend(t)
  \/ \E t \in Threads : CloseTeardown(t)
  \/ \E t \in Threads : CloseKids(t)
  \/ \E t \in Callers, m \in Machines, mx \in 1..MaxCeiling : CallerSub(t, m, mx)

SpecShut == InitShut /\ [][NextShut]_vars

\* A tree whose machines admit and complete work while Current() is called.
NextSnap ==
  \/ \E t \in Callers, m \in Machines, id \in 0..MaxSuppliedId : CallerGo(t, m, id)
  \/ \E u \in Units, m \in Machines, id \in 0..MaxSuppliedId : UnitGo(u, m, id)
  \/ \E m \in Machines, t \in Threads : ServeReceive(m, t)
  \/ \E m \in Machines : ServePoll(m)
  \/ \E m \in Machines : ServeAdmit(m)
  \/ \E m \in Machines : ServeLaunch(m)
  \/ \E u \in Units : UnitReturn(u)
  \/ \E t \in Threads : CurrentStep(t)
  \/ \E t \in Callers, m \in Machines, mx \in 1..MaxCeiling : CallerSub(t, m, mx)
  \/ \E t \in Callers, m \in Machines : CallerCurrent(t, m)

SpecSnap == InitTree(TreeUnits, MaxMachines, ShutIds) /\ [][NextSnap]_vars

\* One machine whose units submit work themselves, under the Go scheduler's
\* fairness: a goroutine that can take a step eventually takes one.
ServeStep(m) ==
  \/ \E t \in Threads : ServeReceive(m, t)
  \/ ServePoll(m)
  \/ ServeAdmit(m)
  \/ ServeLaunch(m)

UnitStep(u) ==
  \/ UnitReturn(u)
  \/ \E m \in Machines, id \in 0..MaxSuppliedId : UnitGo(u, m, id)

NextNest ==
  \/ \E t \in Callers, m \in Machines, id \in 0..MaxSuppliedId : CallerGo(t, m, id)
  \/ \E u \in Units, m \in Machines, id \in 0..MaxSuppliedId : UnitGo(u, m, id)
  \/ \E m \in Machines, t \in Threads : ServeReceive(m, t)
  \/ \E m \in Machines : ServePoll(m)
  \/ \E m \in Machines : ServeAdmit(m)
  \/ \E m \in Machines : ServeLaunch(m)
  \/ \E u \in Units : UnitReturn(u)

SpecNest ==
  /\ InitTree(MaxUnits, 1, 0)
  /\ [][NextNest]_vars
  /\ \A m \in Machines : WF_vars(ServeStep(m))
  /\ \A u \in Units : WF_vars(UnitStep(u))

\* ---------------------------------------------------------------- the earlier Machine
\* The Machine of src/unnamed/part_000 is machine 1.  Its routine table also holds
\* the worker queue goroutine's routine, unit 0.
Channels == {"x"}
QueueRoutine == <<GenId(0), 0>>

\* Go: p.workerChan <- &worker{...}; the channel has capacity max and Go checks nothing.
Go0(t) ==
  /\ Idle(t) /\ ops[t] < MaxOps
  /\ \E u \in Units : unit[u] = "free"
  /\ Cardinality({u \in Units : unit[u] # "free"}) < quota.units
  /\ Len(workerChan) < max[1]
  /\ workerChan' = Append(workerChan, NextUnit)
  /\ unit' = [unit EXCEPT ![NextUnit] = "queued"]
  /\ umach' = [umach EXCEPT ![NextUnit] = 1]
  /\ ops' = [ops EXCEPT ![t] = @ + 1]
  /\ UNCHANGED <<newer, quota, max, routines, closeOnce, ctxs, stack, errs, publishMu,
                 publishChan, subscriptions, uret, waitRes>>

\* case work := <-m.workerChan; child2 is derived from the queue routine's context.
LisReceive ==
  /\ At(Lis, "lis", "select")
  /\ workerChan # <<>>
  /\ workerChan' = Tail(workerChan)
  /\ Derive(RCtx(Head(workerChan)), LisCtx)
  /\ unit' = [unit EXCEPT ![Head(workerChan)] = "held"]
  /\ stack' = [stack EXCEPT ![Lis] = <<Frame("lis", 1, "add", Head(workerChan), 0, <<>>, 0)>>]
  /\ UNCHANGED <<newer, quota, max, routines, closeOnce, umach, ops, errs, publishMu,
                 publishChan, subscriptions, uret, waitRes>>

\* case <-child1.Done(): return, then the deferred cancel1() and closeRoutine.
LisDone ==
  /\ At(Lis, "lis", "select")
  /\ LisCtx \in ctxDone
  /\ ctxDone' = CancelCtx(LisCtx)
  /\ routines' = [routines EXCEPT ![1] = Delete(@, GenId(0))]
  /\ stack' = [stack EXCEPT ![Lis] = <<Frame("lis", 1, "exit", 0, 0, <<>>, 0)>>]
  /\ UNCHANGED <<newer, quota, max, closeOnce, ctxPar, units, ops, old>>

\* addRoutine's loop: for x = len(p.routines); x >= p.max && p.ctx.Err() == nil; ...
AddRoutineWaits(x) == x >= max[1] /\ ~CtxErr(1)

\* addRoutine returns; the routine is put in the table and its goroutine started.
LisAdmit ==
  /\ At(Lis, "lis", "add")
  /\ ~AddRoutineWaits(TableLen(1))
  /\ routines' = [routines EXCEPT ![1] = Insert(@, GenId(Top(Lis).u), Top(Lis).u)]
  /\ unit' = [unit EXCEPT ![Top(Lis).u] = "running"]
  /\ stack' = [stack EXCEPT ![Lis] = <<Frame("lis", 1, "select", 0, 0, <<>>, 0)>>]
  /\ UNCHANGED <<newer, quota, max, closeOnce, ctxs, umach, ops, old>>

\* Cancel: p.closeOnce.Do(func() { p.cancel() })
Cancel0 ==
  IF closeOnce[1] = "new"
  THEN /\ closeOnce' = [closeOnce EXCEPT ![1] = "done"]
       /\ ctxDone' = CancelCtx(MCtx(1))
  ELSE UNCHANGED <<closeOnce, ctxDone>>

CallerCancel0(t) ==
  /\ Idle(t) /\ ops[t] < MaxOps
  /\ Cancel0
  /\ ops' = [ops EXCEPT ![t] = @ + 1]
  /\ UNCHANGED <<newer, quota, max, routines, ctxPar, units, stack, old>>

\* A returned error whose cause is Cancel.
IsCancelMistaken(r) == r # "nil"

\* errors.Cause(err) == Cancel
IsCancel(r) == r = "cancel"

\* work.fn returns r.  nil: nothing more; Cancel: m.Cancel(); another error: addErr
\* reads p.errs for its append.
Unit0Return(u, r) ==
  /\ unit[u] = "running" /\ Idle(<<"unit", u>>)
  /\ uret' = [uret EXCEPT ![u] = r]
  /\ IF r # "nil" /\ IsCancel(r) THEN Cancel0 ELSE UNCHANGED <<closeOnce, ctxDone>>
  /\ stack' = [stack EXCEPT ![<<"unit", u>>] =
                 IF r = "nil" \/ IsCancel(r)
                 THEN <<Frame("fn0", 1, "close", u, 0, <<>>, 0)>>
                 ELSE <<Frame("fn0", 1, "write", u, 0, errs, 0)>>]
  /\ UNCHANGED <<newer, quota, max, routines, ctxPar, units, ops, errs, workerChan,
                 publishMu, publishChan, subscriptions, waitRes>>

\* addErr: p.errs = append(p.errs, err), written without a lock from what was read.
AddErrWrite(u) ==
  /\ At(<<"unit", u>>, "fn0", "write")
  /\ errs' = Append(Top(<<"unit", u>>).kids, u)
  /\ stack' = [stack EXCEPT ![<<"unit", u>>] = <<Frame("fn0", 1, "close", u, 0, <<>>, 0)>>]
  /\ UNCHANGED <<newer, quota, max, routines, closeOnce, ctxs, units, ops, workerChan,
                 publishMu, publishChan, subscriptions, uret, waitRes>>

\* The deferred cancel2() and m.closeRoutine(id).
Unit0Close(u) ==
  /\ At(<<"unit", u>>, "fn0", "close")
  /\ ctxDone' = CancelCtx(RCtx(u))
  /\ routines' = [routines EXCEPT ![1] = Delete(@, GenId(u))]
  /\ unit' = [unit EXCEPT ![u] = "done"]
  /\ stack' = [stack EXCEPT ![<<"unit", u>>] = <<>>]
  /\ UNCHANGED <<newer, quota, max, closeOnce, ctxPar, umach, ops, old>>

\* Wait's loop: for !(p.Current() > 0) {}
Wait0Spins(x) == ~(x > 0)

\* Wait leaves its loop.
Wait0Exit(t) ==
  /\ Idle(t) /\ ops[t] < MaxOps
  /\ ~Wait0Spins(TableLen(1))
  /\ stack' = [stack EXCEPT ![t] = <<Frame("Wait0", 1, "cancel", 0, 0, <<>>, 0)>>]
  /\ ops' = [ops EXCEPT ![t] = @ + 1]
  /\ UNCHANGED <<newer, quota, max, routines, closeOnce, ctxs, units, old>>

\* Wait: p.Cancel()
Wait0Cancel(t) ==
  /\ At(t, "Wait0", "cancel")
  /\ Cancel0
  /\ stack' = [stack EXCEPT ![t] = <<SetPc(Top(t), "ret")>>]
  /\ UNCHANGED <<newer, quota, max, routines, ctxPar, units, ops, old>>

\* Wait: return p.errs
Wait0Return(t) ==
  /\ At(t, "Wait0", "ret")
  /\ waitRes' = [waitRes EXCEPT ![t] = errs]
  /\ stack' = [stack EXCEPT ![t] = <<>>]
  /\ UNCHANGED <<newer, quota, max, routines, closeOnce, ctxs, units, ops, errs, workerChan,
                 publishMu, publishChan, subscriptions, uret>>

\* Subscribe: under subMu, a new lane is stored as subscriptions[channel][g.id].
Subscribe0(u, ch) ==
  /\ unit[u] = "running" /\ Idle(<<"unit", u>>)
  /\ subscriptions' =
       [k \in DOMAIN subscriptions \cup {<<ch, GenId(u)>>} |->
          IF k = <<ch, GenId(u)>> THEN <<>> ELSE subscriptions[k]]
  /\ subscriptions' # subscriptions
  /\ UNCHANGED <<newer, quota, max, routines, closeOnce, ctxs, units, stack, ops, errs,
                 workerChan, publishMu, publishChan, uret, waitRes>>

\* Publish: publishMu.Lock(), the channel is made, and the send on the unbuffered
\* publishChan[channel] begins.  Nothing in the package receives from publishChan,
\* so the send has no step that completes it, and publishMu stays locked.
Publish0(u, ch) ==
  /\ unit[u] = "running" /\ Idle(<<"unit", u>>)
  /\ publishMu = 0
  /\ publishMu' = u
  /\ publishChan' = publishChan \cup {ch}
  /\ stack' = [stack EXCEPT ![<<"unit", u>>] = <<Frame("Publish", 1, "send", u, 0, <<>>, 0)>>]
  /\ UNCHANGED <<newer, quota, max, routines, closeOnce, ctxs, units, ops, errs, workerChan,
                 subscriptions, uret, waitRes>>

\* New of src/unnamed/part_000: the queue routine is registered, its goroutine runs.
InitOld(nunits, ceilings) ==
  /\ InitMachine
  /\ quota = [units |-> nunits, machines |-> 1, ids |-> 0]
  /\ max \in {[m \in Machines |-> IF m = 1 THEN n ELSE 0] : n \in ceilings}
  /\ routines = [m \in Machines |-> IF m = 1 THEN {QueueRoutine} ELSE {}]
  /\ ctxPar = [c \in Ctxs |-> IF c = MCtx(1) THEN Background
                              ELSE IF c = LisCtx THEN MCtx(1) ELSE NoCtx]
  /\ stack = [t \in Threads |-> IF t = Lis
                                THEN <<Frame("lis", 1, "select", 0, 0, <<>>, 0)>>
                                ELSE <<>>]

NextOld ==
  \/ \E t \in Callers : Go0(t)
  \/ LisReceive
  \/ LisDone
  \/ LisAdmit
  \/ \E t \in Callers : CallerCancel0(t)
  \/ \E u \in Units, r \in {"nil", "err", "cancel"} : Unit0Return(u, r)
  \/ \E u \in Units : AddErrWrite(u)
  \/ \E u \in Units : Unit0Close(u)
  \/ \E t \in Callers : Wait0Exit(t)
  \/ \E t \in Callers : Wait0Cancel(t)
  \/ \E t \in Callers : Wait0Return(t)
  \/ \E u \in Units, ch \in Channels : Subscribe0(u, ch)
  \/ \E u \in Units, ch \in Channels : Publish0(u, ch)

SpecOld == InitOld(OldUnits, 1..OldCeiling) /\ [][NextOld]_vars

\* The earlier Machine with room for two subscribers and a publisher, under the Go
\* scheduler's fairness: a goroutine that can take a step eventually takes one.
LisStep == LisReceive \/ LisDone \/ LisAdmit

Unit0Step(u) ==
  \/ \E r \in {"nil", "err", "cancel"} : Unit0Return(u, r)
  \/ AddErrWrite(u)
  \/ Unit0Close(u)
  \/ \E ch \in Channels : Subscribe0(u, ch)
  \/ \E ch \in Channels : Publish0(u, ch)

NextPub ==
  \/ \E t \in Callers : Go0(t)
  \/ LisReceive
  \/ LisDone
  \/ LisAdmit
  \/ \E u \in Units, r \in {"nil", "err", "cancel"} : Unit0Return(u, r)
  \/ \E u \in Units : AddErrWrite(u)
  \/ \E u \in Units : Unit0Close(u)
  \/ \E u \in Units, ch \in Channels : Subscribe0(u, ch)
  \/ \E u \in Units, ch \in Channels : Publish0(u, ch)

SpecPub ==
  /\ InitOld(PubUnits, {PubCeiling})
  /\ [][NextPub]_vars
  /\ WF_vars(LisStep)
  /\ \A u \in Units : WF_vars(Unit0Step(u))
  /\ \A t \in Callers : WF_vars(Go0(t))

\* The earlier Machine with every ceiling from 1 up, under the Go scheduler's
\* fairness, and without calls of Cancel or Wait from outside.
SpecDelay ==
  /\ InitOld(OldUnits, 1..OldCeiling)
  /\ [][NextPub]_vars
  /\ WF_vars(LisStep)
  /\ \A u \in Units : WF_vars(Unit0Step(u))


\* work.fn panics: the deferred cancel2() and closeRoutine run, and as the goroutine
\* has no recover() the panic ends the process, every goroutine with it.
Unit0Panic(u) ==
  /\ unit[u] = "running" /\ Idle(<<"unit", u>>)
  /\ uret' = [uret EXCEPT ![u] = "panic"]
  /\ ctxDone' = CancelCtx(RCtx(u))
  /\ routines' = [routines EXCEPT ![1] = Delete(@, GenId(u))]
  /\ unit' = [unit EXCEPT ![u] = "done"]
  /\ stack' = [t \in Threads |-> <<Frame("exit", 1, "panic", u, 0, <<>>, 0)>>]
  /\ UNCHANGED <<newer, quota, max, closeOnce, ctxPar, umach, ops, errs, workerChan,
                 publishMu, publishChan, subscriptions, waitRes>>

\* The earlier Machine with units that may panic.
NextPanic ==
  \/ \E t \in Callers : Go0(t)
  \/ LisReceive
  \/ LisDone
  \/ LisAdmit
  \/ \E u \in Units, r \in {"nil", "err", "cancel"} : Unit0Return(u, r)
  \/ \E u \in Units : AddErrWrite(u)
  \/ \E u \in Units : Unit0Close(u)
  \/ \E u \in Units : Unit0Panic(u)

SpecPanic == InitOld(OldUnits, 1..OldCeiling) /\ [][NextPanic]_vars

\* One machine that is cancelled and closed while work is submitted to it, from
\* outside and from its units, under the Go scheduler's fairness: a goroutine that
\* can take a step eventually takes one, and a call that began goes on.
ServeRuns(m) == ServeStep(m) \/ ServeDone(m)

CallStep(t) ==
  \/ CancelKids(t)
  \/ CloseCancel(t)
  \/ CloseSend(t)
  \/ CloseTeardown(t)
  \/ CloseKids(t)

NextStop ==
  \/ \E t \in Callers, m \in Machines, id \in 0..MaxSuppliedId : CallerGo(t, m, id)
  \/ \E u \in Units, m \in Machines, id \in 0..MaxSuppliedId : UnitGo(u, m, id)
  \/ \E m \in Machines, t \in Threads : ServeReceive(m, t)
  \/ \E m \in Machines : ServeDone(m)
  \/ \E m \in Machines : ServePoll(m)
  \/ \E m \in Machines : ServeAdmit(m)
  \/ \E m \in Machines : ServeLaunch(m)
  \/ \E u \in Units : UnitReturn(u)
  \/ \E t \in Callers, m \in Machines : CallerCancel(t, m)
  \/ \E t \in Callers, m \in Machines : CallerClose(t, m)
  \/ \E t \in Threads : CancelKids(t)
  \/ \E t \in Threads : CloseCancel(t)
  \/ \E t \in Threads : CloseSend(t)
  \/ \E t \in Threads : CloseTeardown(t)
  \/ \E t \in Threads : CloseKids(t)

SpecStop ==
  /\ InitTree(MaxUnits, 1, 0)
  /\ [][NextStop]_vars
  /\ \A m \in Machines : WF_vars(ServeRuns(m))
  /\ \A u \in Units : WF_vars(UnitStep(u))
  /\ \A t \in Callers : WF_vars(CallStep(t))

\* ---------------------------------------------------------------- claims
RECURSIVE Under(_, _)
\* c is m or a machine derived from m with Sub, at any depth.
Under(c, m) == c = m \/ (mparent[c] # 0 /\ Under(mparent[c], m))

Active(u) == unit[u] \in {"registered", "running"}

\* C1: the active count of a machine, its own routine table plus the active count
\* of every child, never exceeds the machine's ceiling.
CurrentWithinCeiling == \A m \in made : TrueCurrent(m) <= max[m]

\* C2: once a machine's root context is done, no step puts a work item into its
\* routine table.
NoAdmissionAfterCancel ==
  [][\A m \in Machines : CtxErr(m) => routines'[m] \subseteq routines[m]]_vars

\* C4: whatever the number of Close calls, and whichever way they reach a machine,
\* its cache is closed at most once, its event bus at most once and its done signal
\* sent at most once, and each exactly once when a Close has returned.
CloseTearsDownOnce ==
  \A m \in made :
    /\ cacheClosed[m] <= 1 /\ pubsubClosed[m] <= 1 /\ doneSent[m] <= 1
    /\ doneOnce[m] = "done" => cacheClosed[m] = 1 /\ pubsubClosed[m] = 1 /\ doneSent[m] = 1

\* A parent's Close loop has called Close on a child that was closed before.
CloseReachedChildAgain ==
  \E t \in Callers :
    /\ At(t, "Close", "kids") /\ Top(t).i > 1
    /\ doneOnce[Top(t).kids[1]] = "done"
    /\ cacheClosed[Top(t).kids[1]] = 1

\* C5: once Cancel or Close of a machine has returned, the context of every machine
\* under it and of every routine registered under it is done, also of a routine
\* admitted afterwards.
CancelReachesSubtree ==
  \A m \in made :
    (closeOnce[m] = "done" \/ doneOnce[m] = "done") =>
      \A c \in made : Under(c, m) =>
        /\ MCtx(c) \in ctxDone
        /\ \A u \in Units : umach[u] = c /\ Active(u) => RCtx(u) \in ctxDone

\* The root was cancelled while a routine is registered in a child of a child.
CancelledAboveGrandchild ==
  /\ closeOnce[1] = "done"
  /\ \E u \in Units :
       /\ Active(u) /\ umach[u] # 0
       /\ mparent[umach[u]] # 0
       /\ mparent[mparent[umach[u]]] # 0

Drained(m) == \A u \in Units : umach[u] = m => unit[u] \in {"done", "rejected"}

\* C6: a machine's total never decreases, and once its work has drained it equals
\* the number of its own work items that were admitted and ran; rejected
\* submissions and the admissions of its children are not in it.
TotalCountsAdmitted ==
  /\ [](\A m \in made : Drained(m) =>
          total[m] = Cardinality({u \in Units : umach[u] = m /\ unit[u] = "done"}))
  /\ [][\A m \in Machines : total'[m] >= total[m]]_vars

\* A machine has drained after admitting one work item and rejecting another.
DrainedWithRejection ==
  \E m \in made :
    /\ Drained(m) /\ total[m] >= 1
    /\ \E u \in Units : umach[u] = m /\ unit[u] = "rejected"

\* C3: Wait returns only when no unit is registered in a routine table.
WaitReturnsWhenDrained ==
  [][\A t \in Callers :
       (waitRes[t] = <<"none">> /\ waitRes'[t] # <<"none">>)
       \/ (At(t, "Wait", "ret") /\ stack'[t] = <<>>)
       => \A m \in Machines : routines'[m] \subseteq {QueueRoutine}]_vars

\* The step is one of unit u's function returning or of its goroutine's exit.
ExitStepOf(u) ==
  /\ unit[u] = "running"
  /\ uret'[u] # "" /\ (uret[u] = "" \/ stack'[<<"unit", u>>] # stack[<<"unit", u>>])

\* C7: a unit that returns an error whose cause is Cancel makes the root context,
\* and with it every routine's context, done; a unit that returns nil or another
\* error makes no context done but its own.
OnlyCancelCancels ==
  [][\A u \in Units : ExitStepOf(u) =>
       IF uret'[u] = "cancel"
       THEN {MCtx(1)} \cup {RCtx(v) : v \in {w \in Units : unit[w] = "running"}} \subseteq ctxDone'
       ELSE ctxDone' \ ctxDone \subseteq {RCtx(u)}]_vars

\* No outside goroutine called Cancel or Wait, a unit returned Cancel, and the
\* context of a routine that is still running is done.
CancelledByUnit ==
  /\ \A t \in Callers : Idle(t) /\ waitRes[t] = <<"none">>
  /\ closeOnce[1] = "done"
  /\ \E v, w \in Units :
       /\ uret[v] = "cancel"
       /\ w # v /\ unit[w] = "running" /\ uret[w] = "" /\ RCtx(w) \in ctxDone
  /\ \A t \in Callers : ops[t] = 1

Occurrences(sq, x) == Cardinality({i \in 1..Len(sq) : sq[i] = x})

\* C8: the slice Wait returns holds the error of every unit that returned an error
\* other than Cancel, once each.
WaitReturnsEveryError ==
  \A t \in Callers : waitRes[t] # <<"none">> =>
    \A u \in Units : uret[u] = "err" => Occurrences(waitRes[t], u) = 1

Subscribed(u) == <<"x", GenId(u)>> \in DOMAIN subscriptions
Received(u) == Subscribed(u) /\ subscriptions[<<"x", GenId(u)>>] # <<>>
Publishing(u) == At(<<"unit", u>>, "Publish", "send")

\* C9: when two routines have subscribed to "x" and a third is in Publish("x", v),
\* the Publish call eventually returns and the two lanes carry the value.
PublishDelivers ==
  (\E p, a, b \in Units :
     /\ p # a /\ p # b /\ a # b
     /\ Publishing(p) /\ Subscribed(a) /\ Subscribed(b)
     /\ unit[a] = "running" /\ uret[a] = ""
     /\ unit[b] = "running" /\ uret[b] = "")
  ~> (publishMu = 0 /\ Cardinality({a \in Units : Received(a)}) >= 2)

\* C10: every Go call returns and every submitted work item is admitted and run,
\* also when running units submit the work.
SubmissionCompletes ==
  /\ \A t \in Threads : At(t, "Go", "send") ~> ~At(t, "Go", "send")
  /\ \A u \in Units : (unit[u] \in {"pending", "held", "registered"}) ~> (unit[u] \in {"running", "done"})

Waiting(u) == unit[u] \in {"pending", "queued", "held"}

\* C11: a work item submitted to an open machine does not wait forever while fewer
\* units than the ceiling are active: as long as it waits, the machine is full
\* again and again.
FullMachineDelays ==
  \A u \in Units :
    []<>(\/ ~Waiting(u)
         \/ CtxErr(1)
         \/ Cardinality({v \in Units : Active(v)}) >= max[1])

\* C12: when Wait returns, the machine's root context is done.
WaitCancels ==
  [][\A t \in Callers :
       /\ At(t, "Wait", "ret") /\ stack'[t] = <<>> => MCtx(Top(t).m) \in ctxDone'
       /\ waitRes[t] = <<"none">> /\ waitRes'[t] # <<"none">> => MCtx(1) \in ctxDone']_vars

\* C13: the size of a machine's routine table is the number of its work items that
\* were admitted and whose function has not returned.
TableHoldsAdmitted ==
  \A m \in made : TableLen(m) = Cardinality({u \in Units : umach[u] = m /\ Active(u)})

\* C14: the size of a machine's own routine table never exceeds its ceiling.
OwnTableWithinCeiling == \A m \in made : TableLen(m) <= max[m]

\* C16: when Close of a machine completes, every machine Sub has made under it so
\* far has been sent its done signal and has had its cache and event bus closed.
CloseCascades ==
  [][\A m \in made :
       doneOnce[m] # "done" /\ doneOnce'[m] = "done" =>
         \A c \in made : Under(c, m) =>
           doneSent'[c] = 1 /\ cacheClosed'[c] = 1 /\ pubsubClosed'[c] = 1]_vars

\* C17: no step of a Cancel call sends a done signal or closes a cache or an event
\* bus, of the machine or of a child.
CancelLeavesTeardown ==
  [][\A t \in Callers :
       Called(t, "Cancel") /\ stack'[t] # stack[t] =>
         UNCHANGED <<cacheClosed, pubsubClosed, doneSent>>]_vars

\* C18: after a unit's function has panicked, the unit is out of the routine table,
\* the dispatch loop and the other units' goroutines still exist, and the context
\* of no other running unit is done unless the machine was cancelled.
PanicIsContained ==
  \A u \in Units : uret[u] = "panic" =>
    /\ unit[u] = "done" /\ <<GenId(u), u>> \notin routines[1]
    /\ Top(Lis).op = "lis"
    /\ \A v \in Units \ {u} :
         /\ stack[<<"unit", v>>] # <<>> => Top(<<"unit", v>>).op # "exit"
         /\ unit[v] = "running" /\ ~CtxErr(1) => RCtx(v) \notin ctxDone

\* C19: once Close of a machine has begun, its serve goroutine eventually returns,
\* and the send on the done channel never has to wait.
ServeExitsOnClose ==
  /\ \A m \in Machines : (doneOnce[m] # "new") ~> At(ServeOf(m), "serve", "exit")
  /\ [](\A t \in Threads : At(t, "Close", "send") => done[Top(t).m] < 1)

\* C20: every Go call returns, whatever Cancel and Close do meanwhile.
GoReturns == \A t \in Threads : At(t, "Go", "send") ~> ~At(t, "Go", "send")

\* C15: the value Current() returns for a machine with two or more children is the
\* sum of the routine-table sizes of the machine and its descendants at one instant
\* between the call and the return.
CurrentIsSnapshot ==
  [][\A t \in Callers :
       /\ Called(t, "Current") /\ Len(stack[t]) = 1 /\ stack'[t] = <<>>
       /\ Len(children[Top(t).m]) >= 2
       => Top(t).acc \in seen[t] \cup {TrueCurrent(Top(t).m)}]_vars

====
